---- MODULE Spec2Model ----
(***************************************************************************)
(* Model of src/systemmonitor.cpp: the sampling loop of main(), its        *)
(* per-process delta/percentage computation, the sort, the frame that is   *)
(* pushed to the terminal, and the key handling with its kill sub-flow.    *)
(*                                                                         *)
(* Numbers.  The program computes percentages in double; the model uses    *)
(* exact rationals <<n, d>> in lowest terms with d > 0, so that the        *)
(* program's == and > on doubles become equality and order of rationals.   *)
(* Time is counted in milliseconds since last_time was stored.             *)
(***************************************************************************)
EXTENDS Integers, Sequences, FiniteSets, TLC

(* ------------------------------ bounds -------------------------------- *)
\* pids the process enumeration can return: 1..MaxPid
MaxPid == 2
\* cumulative tick values a stat record can report: 0, 100, 150, ...
MaxTickSteps == 1
\* termination requests the operator gets to issue in one run
MaxKills == 1
\* length of the process vectors handed to the sort on its own
MaxProcs == 3

(* ----------------------- constants of the program --------------------- *)
CLK_TCK == 100
PAGE_SIZE == 4096
BY_CPU_DESC == 0
BY_MEM_DESC == 1
BY_PID_ASC == 2

Pids == 1..MaxPid
QuietPids == {1, 2}
TickValues == {0} \cup {100 + 50 * k : k \in 0..MaxTickSteps}
RssValues == {0, 25600}
MemTotalKb == {0, 1024000}
RowsValues == {10, 24}
StartupDelays == {0, 1}
\* values of now - last_time the loop head can see: the two start-up values,
\* 800 after a sort key, 1000 after no key, 1800 and 2800 after a kill
LoopHeadElapsed == {0, 1, 800, 1000, 2800}
BlockDelays == {1000}

(* ----------------------------- rationals ------------------------------ *)
Abs(n) == IF n < 0 THEN -n ELSE n

RECURSIVE GCD(_, _)
GCD(a, b) == IF b = 0 THEN a ELSE GCD(b, a % b)

\* n/d in lowest terms, d > 0
Rat(n, d) ==
    LET g == GCD(Abs(n), Abs(d))
        s == IF d < 0 THEN -1 ELSE 1
    IN  <<(s * n) \div g, (s * d) \div g>>

RZero == <<0, 1>>
RMul(a, b) ==
    LET x == Rat(a[1], b[2])
        y == Rat(b[1], a[2])
    IN  Rat(x[1] * y[1], x[2] * y[2])
RDiv(a, b) == RMul(a, IF b[1] < 0 THEN <<-b[2], -b[1]>> ELSE <<b[2], b[1]>>)
RAdd(a, b) == Rat(a[1] * b[2] + b[1] * a[2], a[2] * b[2])
RGt(a, b) == a[1] * b[2] > b[1] * a[2]
RGe(a, b) == a[1] * b[2] >= b[1] * a[2]

(* ------------------------------- state -------------------------------- *)
VARIABLES
    pc,              \* position of main() in its loop
    rows, cols,      \* terminal size read by getmaxyx
    elapsed,         \* steady_clock::now() - last_time, in ms
    interval,        \* seconds between the last two samples (rational)
    mem_total_mb,    \* MemTotal of this iteration, in MB (rational)
    mem_avail_mb,    \* MemAvailable of this iteration, in MB (rational)
    prev_total_time, \* the /proc/stat total read last
    total_time_delta,\* its advance in this iteration
    exit_code,       \* value returned by main(), -1 while it runs
    procs,           \* the Proc vector of this iteration
    prev_proc_time,  \* pid -> cumulative ticks seen last
    sort_mode,       \* 0 = CPU desc, 1 = MEM desc, 2 = PID asc
    screen,          \* what the terminal shows after the last refresh
    nodelay, echo, curs,   \* input mode of the terminal
    prev, delta,     \* the loop's locals prev and delta, one per element
    ch,              \* the key returned by getch() in this iteration
    buf, okpid, res, \* locals of the kill sub-flow
    kill_calls       \* pids passed to kill(pid, SIGTERM), oldest first

vars == <<pc, rows, cols, elapsed, interval, mem_total_mb, mem_avail_mb,
          prev_total_time, total_time_delta, exit_code, procs, prev, delta,
          prev_proc_time, sort_mode, screen, nodelay, echo, curs, ch, buf,
          okpid, res, kill_calls>>

(* --------------------------- SnapshotReader --------------------------- *)
\* What the three reads of one /proc/<pid> can give.  stat = -1: the first
\* line of stat is empty or has fewer than 22 tokens; otherwise utime+stime.
\* statm = -1: statm is empty; status = -1: no VmRSS line, otherwise its kB.
ReadOutcomes ==
    {[comm |-> "", stat |-> -1, statm |-> -1, status |-> -1],
     [comm |-> "proc", stat |-> -1, statm |-> -1, status |-> -1]}
    \cup [comm : {"proc"}, stat : TickValues \cup {-1}, statm : RssValues,
          status : {-1}]
    \cup [comm : {"proc"}, stat : TickValues, statm : {-1},
          status : {-1, 102400}]

\* The outcomes of a quiet system: a process is read whole, with 100 or 150
\* ticks, or has vanished before its first read.
QuietOutcomes ==
    {[comm |-> "", stat |-> -1, statm |-> -1, status |-> -1]}
    \cup [comm : {"proc"}, stat : {100, 150}, statm : {25600}, status : {-1}]

\* Every tick count the stat read can report, the other reads succeeding, or
\* all reads failing.  (A stat line that is too short gives the same Proc as
\* one that reports 0 ticks.)
TickOutcomes ==
    {[comm |-> "", stat |-> -1, statm |-> -1, status |-> -1]}
    \cup [comm : {"proc"}, stat : TickValues, statm : {25600},
          status : {-1}]

\* stat = MalformedStat: the first line of stat has 22 tokens or more and its
\* 14th or 15th is not a number, so that std::stoull throws (lines 105-106).
MalformedStat == -2

Throws(reads) == \E i \in DOMAIN reads : reads[i].stat = MalformedStat

read_process_basic(pid, r) ==
    [pid |-> pid,
     name |-> r.comm,
     prev_time |-> 0,
     time |-> IF r.stat >= 0 THEN r.stat ELSE 0,
     rss_pages |-> IF r.statm # -1 THEN r.statm
                   ELSE IF r.status # -1 THEN (r.status * 1024) \div PAGE_SIZE
                   ELSE 0,
     cpu_pct |-> RZero,
     mem_pct |-> RZero]

\* The orders in which readdir can return the numeric entries of /proc:
\* sequences of pairwise distinct pids.
Enumerations(P) ==
    {s \in UNION {[1..n -> P] : n \in 0..Cardinality(P)} :
        \A i, j \in DOMAIN s : i # j => s[i] # s[j]}

\* The orders procfs itself gives: ascending pid.
AscendingEnumerations(P) ==
    {s \in Enumerations(P) : \A i, j \in DOMAIN s : i < j => s[i] < s[j]}

get_all_processes(order, reads) ==
    [i \in 1..Len(order) |-> read_process_basic(order[i], reads[i])]

\* MemTotal in MB: value / 1024.0
read_mem_info(kb) == Rat(kb, 1024)

(* ----------------------------- DeltaEngine ---------------------------- *)
\* The pieces of the body of the for loop over procs: lines 208-219.
\* variant: a pid without an entry is compared with 0
ProcPrevFromZero(p, prevmap) ==
    IF p.pid \in DOMAIN prevmap THEN prevmap[p.pid] ELSE 0

ProcPrev(p, prevmap) ==
    IF p.pid \in DOMAIN prevmap THEN prevmap[p.pid] ELSE p.time

\* variant: the difference is not clamped
ProcDeltaSigned(p, pv) == p.time - pv

ProcDelta(p, pv) == IF p.time > pv THEN p.time - pv ELSE 0

\* variant: a fraction of the interval, not a percentage
CpuPctFraction(d, iv) ==
    LET proc_seconds == Rat(d, CLK_TCK)
    IN  IF RGt(iv, RZero) THEN RDiv(proc_seconds, iv) ELSE RZero

CpuPct(d, iv) ==
    LET proc_seconds == Rat(d, CLK_TCK)
    IN  IF RGt(iv, RZero) THEN RMul(RDiv(proc_seconds, iv), <<100, 1>>)
        ELSE RZero

\* variant: the page count is taken for a byte count
MemPctOfPages(rss_pages, total_mb) ==
    LET rss_mb == RDiv(Rat(rss_pages, 1), <<1024 * 1024, 1>>)
    IN  IF RGt(total_mb, RZero) THEN RMul(RDiv(rss_mb, total_mb), <<100, 1>>)
        ELSE RZero

MemPct(rss_pages, total_mb) ==
    LET rss_bytes == Rat(rss_pages * PAGE_SIZE, 1)
        rss_mb == RDiv(rss_bytes, <<1024 * 1024, 1>>)
    IN  IF RGt(total_mb, RZero) THEN RMul(RDiv(rss_mb, total_mb), <<100, 1>>)
        ELSE RZero

\* variant: a record of 0 ticks leaves the entry as it was
StorePrevUnlessZero(prevmap, p) ==
    IF p.time = 0 /\ p.pid \in DOMAIN prevmap THEN prevmap
    ELSE [q \in DOMAIN prevmap \cup {p.pid} |->
            IF q = p.pid THEN p.time ELSE prevmap[q]]

\* variant: the map is rebuilt from the element at hand
StorePrevOnly(prevmap, p) == [q \in {p.pid} |-> p.time]

StorePrev(prevmap, p) ==
    [q \in DOMAIN prevmap \cup {p.pid} |->
        IF q = p.pid THEN p.time ELSE prevmap[q]]

\* The whole for loop, element by element, threading the map.
RECURSIVE ComputeLoop(_, _, _, _, _, _, _)
ComputeLoop(ps, i, prevmap, pvs, ds, iv, total_mb) ==
    IF i > Len(ps)
    THEN [procs |-> ps, prev |-> pvs, delta |-> ds, map |-> prevmap]
    ELSE LET p == ps[i]
             pv == ProcPrev(p, prevmap)
             d == ProcDelta(p, pv)
             q == [p EXCEPT !.cpu_pct = CpuPct(d, iv),
                            !.mem_pct = MemPct(p.rss_pages, total_mb)]
         IN  ComputeLoop([ps EXCEPT ![i] = q], i + 1, StorePrev(prevmap, p),
                         Append(pvs, pv), Append(ds, d), iv, total_mb)

(* ------------------------------ Aggregator ---------------------------- *)
\* The three comparators handed to std::sort.
\* variant: no tie-break on the pid
ProcLessNoTieBreak(mode, a, b) ==
    IF mode = 0 THEN RGt(a.cpu_pct, b.cpu_pct)
    ELSE IF mode = 1 THEN RGt(a.mem_pct, b.mem_pct)
    ELSE a.pid < b.pid

ProcLess(mode, a, b) ==
    IF mode = 0 THEN
        IF a.cpu_pct = b.cpu_pct THEN a.pid < b.pid
        ELSE RGt(a.cpu_pct, b.cpu_pct)
    ELSE IF mode = 1 THEN
        IF a.mem_pct = b.mem_pct THEN a.pid < b.pid
        ELSE RGt(a.mem_pct, b.mem_pct)
    ELSE a.pid < b.pid

\* std::sort with a comparator: insertion of each element before the first
\* element it is less than.
RECURSIVE InsertProc(_, _, _)
InsertProc(mode, p, s) ==
    IF s = <<>> THEN <<p>>
    ELSE IF ProcLess(mode, p, Head(s)) THEN <<p>> \o s
    ELSE <<Head(s)>> \o InsertProc(mode, p, Tail(s))

RECURSIVE SortProcs(_, _)
SortProcs(mode, s) ==
    IF s = <<>> THEN <<>>
    ELSE InsertProc(mode, Head(s), SortProcs(mode, Tail(s)))

(* ------------------------------- Renderer ----------------------------- *)
SortLabel(mode) ==
    IF mode = 0 THEN "CPU %" ELSE IF mode = 1 THEN "MEM %" ELSE "PID"

\* rows of the table that fit: rows - row - 2 with row = 7, at least 1
MaxRows(r) == IF r - 7 - 2 < 1 THEN 1 ELSE r - 7 - 2

TableRow(p) ==
    [pid |-> p.pid,
     name |-> IF p.name = "" THEN "[" \o ToString(p.pid) \o "]" ELSE p.name,
     cpu_pct |-> p.cpu_pct,
     mem_pct |-> p.mem_pct]

RECURSIVE sum_proc_cpu(_)
sum_proc_cpu(ps) ==
    IF ps = <<>> THEN RZero ELSE RAdd(Head(ps).cpu_pct, sum_proc_cpu(Tail(ps)))

\* variant: the sum is shown whatever the /proc/stat counter did
OverallCpuUngated(ttd, ps) == sum_proc_cpu(ps)

\* Lines 245-253: the local cpu_pct of the header.
OverallCpu(ttd, ps) == IF ttd > 0 THEN sum_proc_cpu(ps) ELSE RZero

\* (int)x of a double: the fraction is dropped, towards zero
Trunc(x) == IF x[1] < 0 THEN -((-x[1]) \div x[2]) ELSE x[1] \div x[2]

\* Line 259.
bar_w(c) == IF 20 > c \div 3 THEN 20 ELSE c \div 3

\* Line 261.
cpu_fraction(cpu) ==
    LET f == RDiv(cpu, <<100, 1>>) IN IF RGt(f, <<1, 1>>) THEN <<1, 1>> ELSE f

\* Lines 265-266.
mem_fraction(total, avail) ==
    IF RGt(total, RZero) THEN RDiv(RAdd(total, <<-avail[1], avail[2]>>), total)
    ELSE RZero

\* variant: the fraction of a cell is dropped instead of rounded
draw_bar_truncating(width, fraction) ==
    LET filled == Trunc(RMul(fraction, <<width, 1>>))
    IN  [i \in 1..width |-> i - 1 < filled]

\* Lines 156-161: the cells of the bar, TRUE for a filled one.
draw_bar(width, fraction) ==
    LET filled == Trunc(RAdd(RMul(fraction, <<width, 1>>), <<1, 2>>))
    IN  [i \in 1..width |-> i - 1 < filled]

\* The window after initscr(): nothing drawn.
BlankScreen ==
    [sort |-> "", cpu_pct |-> RZero, cpu_bar |-> <<>>, mem_bar |-> <<>>,
     table |-> <<>>]

Frame(mode, ps, r, c, ttd, total, avail) ==
    LET n == IF Len(ps) < MaxRows(r) THEN Len(ps) ELSE MaxRows(r)
        cpu == OverallCpu(ttd, ps)
    IN  [sort |-> SortLabel(mode),
         cpu_pct |-> cpu,
         cpu_bar |-> draw_bar(bar_w(c), cpu_fraction(cpu)),
         mem_bar |-> draw_bar(bar_w(c), mem_fraction(total, avail)),
         table |-> [i \in 1..n |-> TableRow(ps[i])]]

(* --------------------------- InputController -------------------------- *)
\* What getch() can return in MONITOR: "none" is ERR (no key waiting).
Keys == {"none", "q", "Q", "s", "S", "k", "K", "x"}

\* Lines the operator can type at the pid prompt, as sequences of characters.
Lines ==
    {<<>>, <<"a">>, <<"0">>, <<"-", "7">>, <<"4", "2">>, <<" ", "4", "2">>,
     <<"4", "2", "x">>, <<"+", "4", "2">>}

Digits == {"0", "1", "2", "3", "4", "5", "6", "7", "8", "9"}
DigitVal(c) ==
    CASE c = "0" -> 0 [] c = "1" -> 1 [] c = "2" -> 2 [] c = "3" -> 3
      [] c = "4" -> 4 [] c = "5" -> 5 [] c = "6" -> 6 [] c = "7" -> 7
      [] c = "8" -> 8 [] c = "9" -> 9

RECURSIVE SkipSpace(_, _)
SkipSpace(s, i) ==
    IF i <= Len(s) /\ s[i] = " " THEN SkipSpace(s, i + 1) ELSE i

RECURSIVE ParseDigits(_, _, _)
ParseDigits(s, i, acc) ==
    IF i <= Len(s) /\ s[i] \in Digits
    THEN ParseDigits(s, i + 1, acc * 10 + DigitVal(s[i]))
    ELSE acc

\* atoi: leading blanks, an optional sign, then the longest run of digits;
\* 0 when there is none.  (Lines are short: no value leaves the int range.)
atoi(s) ==
    LET i == SkipSpace(s, 1)
        signed == i <= Len(s) /\ s[i] \in {"+", "-"}
        v == ParseDigits(s, IF signed THEN i + 1 ELSE i, 0)
    IN  IF signed /\ s[i] = "-" THEN -v ELSE v

(* ------------------------------ main() -------------------------------- *)
\* variant: nodelay(stdscr, TRUE) is left out of the set up
InitBlocking ==
    /\ pc = "sample"
    /\ rows = 24
    /\ cols = 80
    /\ elapsed \in StartupDelays
    /\ interval = RZero
    /\ mem_total_mb = RZero
    /\ mem_avail_mb = RZero
    /\ prev_total_time = 1000
    /\ total_time_delta = 0
    /\ exit_code = -1
    /\ procs = <<>>
    /\ prev = <<>>
    /\ delta = <<>>
    /\ prev_proc_time = <<>>
    /\ sort_mode = 0
    /\ screen = BlankScreen
    /\ nodelay = FALSE
    /\ echo = FALSE
    /\ curs = 0
    /\ ch = "none"
    /\ buf = <<>>
    /\ okpid = 0
    /\ res = 0
    /\ kill_calls = <<>>

\* Lines 166-182: ncurses set up, empty map, last_time = now, sort_mode = 0.
Init ==
    /\ pc = "sample"
    /\ rows = 24
    /\ cols = 80
    /\ elapsed \in StartupDelays
    /\ interval = RZero
    /\ mem_total_mb = RZero
    /\ mem_avail_mb = RZero
    /\ prev_total_time = 1000
    /\ total_time_delta = 0
    /\ exit_code = -1
    /\ procs = <<>>
    /\ prev = <<>>
    /\ delta = <<>>
    /\ prev_proc_time = <<>>
    /\ sort_mode = 0
    /\ screen = BlankScreen
    /\ nodelay = TRUE
    /\ echo = FALSE
    /\ curs = 0
    /\ ch = "none"
    /\ buf = <<>>
    /\ okpid = 0
    /\ res = 0
    /\ kill_calls = <<>>

\* variant: the measured value is used whatever it is
MeasuredIntervalRaw(ms) == Rat(ms, 1000)

\* variant: the loop's nominal period is assumed
MeasuredIntervalNominal(ms) == <<1, 1>>

\* duration_cast<duration<double>>(now - last_time), with the fallback
MeasuredInterval(ms) ==
    LET iv == Rat(ms, 1000)
    IN  IF ~RGt(iv, RZero) THEN <<1, 1>> ELSE iv

\* Lines 186-204: size, interval, last_time = now, the /proc/stat total,
\* memory, the snapshot.  The parameters are what the reads of this run can
\* return: enumeration orders, per-pid outcomes, MemTotal and MemAvailable
\* in kB, /proc/stat totals (0: the read failed; otherwise the counter does
\* not go back), window heights and widths, and the time in ms that passes
\* between last_time = now and the end of the snapshot.  An exception that
\* leaves read_process_basic is caught nowhere: the program is terminated.
Sample(orders, outcomes, totals, avails, stats, heights, widths, delays) ==
    /\ pc = "sample"
    /\ \E r \in heights, c \in widths, kb \in totals, akb \in avails,
          t \in stats, d \in delays, order \in orders :
         \E reads \in [1..Len(order) -> outcomes] :
            /\ t = 0 \/ t >= prev_total_time
            /\ rows' = r
            /\ cols' = c
            /\ interval' = MeasuredInterval(elapsed)
            /\ elapsed' = d
            /\ total_time_delta' =
                  IF t > prev_total_time THEN t - prev_total_time ELSE 0
            /\ prev_total_time' = t
            /\ mem_total_mb' = read_mem_info(kb)
            /\ mem_avail_mb' = read_mem_info(akb)
            /\ IF Throws(reads)
               THEN procs' = <<>> /\ pc' = "aborted"
               ELSE procs' = get_all_processes(order, reads) /\ pc' = "delta"
    /\ UNCHANGED <<exit_code, prev, delta, prev_proc_time, sort_mode, screen,
                   nodelay, echo, curs, ch, buf, okpid, res, kill_calls>>

\* Lines 207-220: deltas, percentages and the update of the map.
Compute ==
    /\ pc = "delta"
    /\ LET r == ComputeLoop(procs, 1, prev_proc_time, <<>>, <<>>, interval,
                            mem_total_mb)
       IN  /\ procs' = r.procs
           /\ prev' = r.prev
           /\ delta' = r.delta
           /\ prev_proc_time' = r.map
    /\ pc' = "sort"
    /\ UNCHANGED <<cols, mem_avail_mb, prev_total_time, total_time_delta,
                   exit_code, rows, elapsed, interval, mem_total_mb, sort_mode, screen,
                   nodelay, echo, curs, ch, buf, okpid, res, kill_calls>>

\* variant: the vector is rendered as enumerated
SortSkipped ==
    /\ pc = "sort"
    /\ procs' = procs
    /\ prev' = <<>>
    /\ delta' = <<>>
    /\ pc' = "render"
    /\ UNCHANGED <<cols, mem_avail_mb, prev_total_time, total_time_delta,
                   exit_code, rows, elapsed, interval, mem_total_mb, prev_proc_time,
                   sort_mode, screen, nodelay, echo, curs, ch, buf, okpid, res,
                   kill_calls>>

\* Lines 222-237.
Sort ==
    /\ pc = "sort"
    /\ procs' = SortProcs(sort_mode, procs)
    /\ prev' = <<>>
    /\ delta' = <<>>
    /\ pc' = "render"
    /\ UNCHANGED <<cols, mem_avail_mb, prev_total_time, total_time_delta,
                   exit_code, rows, elapsed, interval, mem_total_mb, prev_proc_time,
                   sort_mode, screen, nodelay, echo, curs, ch, buf, okpid, res,
                   kill_calls>>

\* Lines 239-292: the frame is built in the window and pushed by refresh().
Render ==
    /\ pc = "render"
    /\ screen' = Frame(sort_mode, procs, rows, cols, total_time_delta,
                        mem_total_mb, mem_avail_mb)
    /\ pc' = "input"
    /\ UNCHANGED <<cols, mem_avail_mb, prev_total_time, total_time_delta,
                   exit_code, rows, elapsed, interval, mem_total_mb, procs, prev, delta,
                   prev_proc_time, sort_mode, nodelay, echo, curs, ch, buf,
                   okpid, res, kill_calls>>

\* variant: the mode stops at the last one
NextSortModeNoWrap(m) == IF m + 1 > 2 THEN 2 ELSE m + 1

NextSortMode(m) == (m + 1) % 3

\* variant: 0 passes the test
ShouldSendNonNegative(v) == v >= 0

\* Line 309: the test on the parsed pid.
ShouldSend(v) == v > 0

\* Lines 295-305 and 322-325: getch() and the dispatch on the key.  ERR (no
\* key waiting) is returned only while the window is in nodelay mode.
Input ==
    /\ pc = "input"
    /\ \E key \in Keys :
         /\ key = "none" => nodelay
         /\ ch' = key
         /\ IF key \in {"q", "Q"} THEN
               /\ pc' = "done"
               /\ UNCHANGED <<sort_mode, nodelay, echo, curs, elapsed>>
            ELSE IF key \in {"s", "S"} THEN
               /\ sort_mode' = NextSortMode(sort_mode)
               /\ pc' = "cadence"
               /\ UNCHANGED <<nodelay, echo, curs, elapsed>>
            ELSE IF key \in {"k", "K"} THEN
               /\ nodelay' = FALSE
               /\ echo' = TRUE
               /\ curs' = 1
               /\ pc' = "kill_read"
               /\ UNCHANGED <<sort_mode, elapsed>>
            ELSE
               /\ elapsed' = elapsed + 200
               /\ pc' = "cadence"
               /\ UNCHANGED <<sort_mode, nodelay, echo, curs>>
    /\ UNCHANGED <<cols, mem_avail_mb, prev_total_time, total_time_delta,
                   exit_code, rows, interval, mem_total_mb, procs, prev, delta,
                   prev_proc_time, screen, buf, okpid, res, kill_calls>>

\* Lines 306-309: the blocking line read and its parse.
KillRead ==
    /\ pc = "kill_read"
    /\ \E line \in Lines, d \in BlockDelays :
         /\ ShouldSend(atoi(line)) => Len(kill_calls) < MaxKills
         /\ buf' = line
         /\ okpid' = atoi(line)
         /\ elapsed' = elapsed + d
         /\ pc' = IF ShouldSend(atoi(line)) THEN "kill_send"
                  ELSE "kill_restore"
    /\ UNCHANGED <<cols, mem_avail_mb, prev_total_time, total_time_delta,
                   exit_code, rows, interval, mem_total_mb, procs, prev, delta,
                   prev_proc_time, sort_mode, screen, nodelay, echo, curs, ch,
                   res, kill_calls>>

\* variant: the getch() after the message is left out
KillSendNoAck ==
    /\ pc = "kill_send"
    /\ \E r \in {0, -1} : res' = r
    /\ kill_calls' = Append(kill_calls, okpid)
    /\ pc' = "kill_restore"
    /\ UNCHANGED <<cols, mem_avail_mb, prev_total_time, total_time_delta,
                   exit_code, rows, elapsed, interval, mem_total_mb, procs, prev, delta,
                   prev_proc_time, sort_mode, screen, nodelay, echo, curs, ch,
                   buf, okpid>>

\* Lines 310-316: the request and its result.
KillSend ==
    /\ pc = "kill_send"
    /\ \E r \in {0, -1} : res' = r
    /\ kill_calls' = Append(kill_calls, okpid)
    /\ pc' = "kill_ack"
    /\ UNCHANGED <<cols, mem_avail_mb, prev_total_time, total_time_delta,
                   exit_code, rows, elapsed, interval, mem_total_mb, procs, prev, delta,
                   prev_proc_time, sort_mode, screen, nodelay, echo, curs, ch,
                   buf, okpid>>

\* Line 317: the blocking getch() that acknowledges the message.
KillAck ==
    /\ pc = "kill_ack"
    /\ \E d \in BlockDelays : elapsed' = elapsed + d
    /\ pc' = "kill_restore"
    /\ UNCHANGED <<cols, mem_avail_mb, prev_total_time, total_time_delta,
                   exit_code, rows, interval, mem_total_mb, procs, prev, delta,
                   prev_proc_time, sort_mode, screen, nodelay, echo, curs, ch,
                   buf, okpid, res, kill_calls>>

\* variant: nodelay(stdscr, TRUE) is left out
KillRestoreStillBlocking ==
    /\ pc = "kill_restore"
    /\ echo' = FALSE
    /\ curs' = 0
    /\ pc' = "cadence"
    /\ UNCHANGED <<cols, mem_avail_mb, prev_total_time, total_time_delta,
                   exit_code, rows, elapsed, interval, mem_total_mb, procs, prev, delta,
                   prev_proc_time, sort_mode, screen, nodelay, ch, buf, okpid,
                   res, kill_calls>>

\* Lines 319-321.
KillRestore ==
    /\ pc = "kill_restore"
    /\ echo' = FALSE
    /\ curs' = 0
    /\ nodelay' = TRUE
    /\ pc' = "cadence"
    /\ UNCHANGED <<cols, mem_avail_mb, prev_total_time, total_time_delta,
                   exit_code, rows, elapsed, interval, mem_total_mb, procs, prev, delta,
                   prev_proc_time, sort_mode, screen, ch, buf, okpid, res,
                   kill_calls>>

\* variant: the tick map is emptied at the end of every iteration
CadencePrunes ==
    /\ pc = "cadence"
    /\ elapsed' = elapsed + 800
    /\ interval' = RZero
    /\ mem_total_mb' = RZero
    /\ mem_avail_mb' = RZero
    /\ total_time_delta' = 0
    /\ procs' = <<>>
    /\ ch' = "none"
    /\ buf' = <<>>
    /\ okpid' = 0
    /\ res' = 0
    /\ prev_proc_time' = <<>>
    /\ pc' = "sample"
    /\ UNCHANGED <<rows, cols, prev_total_time, exit_code, prev, delta,
                   sort_mode, screen, nodelay, echo, curs,
                   kill_calls>>

\* Line 328, then the locals of the loop body go out of scope.
Cadence ==
    /\ pc = "cadence"
    /\ elapsed' = elapsed + 800
    /\ interval' = RZero
    /\ mem_total_mb' = RZero
    /\ mem_avail_mb' = RZero
    /\ total_time_delta' = 0
    /\ procs' = <<>>
    /\ ch' = "none"
    /\ buf' = <<>>
    /\ okpid' = 0
    /\ res' = 0
    /\ pc' = "sample"
    /\ UNCHANGED <<rows, cols, prev_total_time, exit_code, prev, delta,
                   prev_proc_time, sort_mode, screen, nodelay, echo, curs,
                   kill_calls>>

\* variant: main() returns 1
ExitFailure ==
    /\ pc = "done"
    /\ exit_code' = 1
    /\ pc' = "exited"
    /\ UNCHANGED <<rows, cols, elapsed, interval, mem_total_mb, mem_avail_mb,
                   prev_total_time, total_time_delta, procs, prev, delta,
                   prev_proc_time, sort_mode, screen, nodelay, echo, curs, ch,
                   buf, okpid, res, kill_calls>>

\* Lines 331-332: endwin(); return 0.
Exit ==
    /\ pc = "done"
    /\ exit_code' = 0
    /\ pc' = "exited"
    /\ UNCHANGED <<rows, cols, elapsed, interval, mem_total_mb, mem_avail_mb,
                   prev_total_time, total_time_delta, procs, prev, delta,
                   prev_proc_time, sort_mode, screen, nodelay, echo, curs, ch,
                   buf, okpid, res, kill_calls>>

Next ==
    \/ Sample(Enumerations(QuietPids), QuietOutcomes, {1024000}, {512000},
              {1000}, {24}, {80}, {0})
    \/ Compute
    \/ Sort
    \/ Render
    \/ Input
    \/ KillRead
    \/ KillSend
    \/ KillAck
    \/ KillRestore
    \/ Cadence
    \/ Exit

Spec == Init /\ [][Next]_vars

(* ---------------- one delta step from any loop-head state -------------- *)
\* The maps the loop can have built: any seen pids, any reported ticks.
PrevMaps == UNION {[S -> TickValues] : S \in SUBSET Pids}

DeltaInit ==
    /\ pc = "sample"
    /\ rows = 24
    /\ cols = 80
    /\ elapsed \in LoopHeadElapsed
    /\ interval = RZero
    /\ mem_total_mb = RZero
    /\ mem_avail_mb = RZero
    /\ prev_total_time = 1000
    /\ total_time_delta = 0
    /\ exit_code = -1
    /\ procs = <<>>
    /\ prev = <<>>
    /\ delta = <<>>
    /\ prev_proc_time \in PrevMaps
    /\ sort_mode = 0
    /\ screen = BlankScreen
    /\ nodelay = TRUE
    /\ echo = FALSE
    /\ curs = 0
    /\ ch = "none"
    /\ buf = <<>>
    /\ okpid = 0
    /\ res = 0
    /\ kill_calls = <<>>

DeltaNext ==
    \/ Sample(AscendingEnumerations(Pids), TickOutcomes, {1024000}, {512000},
              {1000}, {24}, {80}, {0})
    \/ Compute

DeltaSpec == DeltaInit /\ [][DeltaNext]_vars

(* --------------------- the sort on any process vector ------------------ *)
\* Vectors as the delta step leaves them: pairwise distinct pids, a delta of
\* 0 or 50 ticks over one second, resident sizes of 0 or 100 MB of 1000 MB.
SortPids == 1..MaxProcs

SortProc(pid, d, rss) ==
    [pid |-> pid, name |-> "proc", prev_time |-> 0, time |-> 150,
     rss_pages |-> rss,
     cpu_pct |-> CpuPct(d, <<1, 1>>),
     mem_pct |-> MemPct(rss, read_mem_info(1024000))]

SortInputs ==
    UNION {{[i \in 1..Len(order) |-> SortProc(order[i], ds[i], rs[i])] :
               ds \in [1..Len(order) -> {0, 50}],
               rs \in [1..Len(order) -> RssValues]} :
           order \in Enumerations(SortPids)}

SortInit ==
    /\ pc = "sort"
    /\ rows \in RowsValues
    /\ cols = 80
    /\ elapsed = 0
    /\ interval = <<1, 1>>
    /\ mem_total_mb = read_mem_info(1024000)
    /\ mem_avail_mb = read_mem_info(512000)
    /\ prev_total_time = 2000
    /\ total_time_delta = 1000
    /\ exit_code = -1
    /\ procs \in SortInputs
    /\ prev = <<>>
    /\ delta = <<>>
    /\ prev_proc_time = <<>>
    /\ sort_mode \in {0, 1, 2}
    /\ screen = BlankScreen
    /\ nodelay = TRUE
    /\ echo = FALSE
    /\ curs = 0
    /\ ch = "none"
    /\ buf = <<>>
    /\ okpid = 0
    /\ res = 0
    /\ kill_calls = <<>>

SortNext ==
    \/ Sort
    \/ Render

SortSpec == SortInit /\ [][SortNext]_vars

(* ------------------ one whole frame from a loop-head state -------------- *)
\* The reads of a process that ran before: 100 or 150 ticks, a resident
\* size of 0 or 100 MB taken from statm or, statm failing, from VmRSS; or
\* nothing readable at all.
FrameOutcomes ==
    {[comm |-> "", stat |-> -1, statm |-> -1, status |-> -1]}
    \cup [comm : {"proc"}, stat : {100, 150}, statm : RssValues,
          status : {-1}]
    \cup [comm : {"proc"}, stat : {100, 150}, statm : {-1},
          status : {102400}]

\* MemAvailable below and above MemTotal, in kB
MemAvailKb == {512000, 2048000}
\* /proc/stat totals: unreadable, unchanged since the last read, advanced
StatTotals == {0, 1000, 2000}
ColsValues == {45, 120}

FrameInit ==
    /\ pc = "sample"
    /\ rows = 24
    /\ cols = 80
    /\ elapsed \in {800, 1000}
    /\ interval = RZero
    /\ mem_total_mb = RZero
    /\ mem_avail_mb = RZero
    /\ prev_total_time = 1000
    /\ total_time_delta = 0
    /\ exit_code = -1
    /\ procs = <<>>
    /\ prev = <<>>
    /\ delta = <<>>
    /\ prev_proc_time = [p \in Pids |-> 100]
    /\ sort_mode = 0
    /\ screen = BlankScreen
    /\ nodelay = TRUE
    /\ echo = FALSE
    /\ curs = 0
    /\ ch = "none"
    /\ buf = <<>>
    /\ okpid = 0
    /\ res = 0
    /\ kill_calls = <<>>

FrameNext ==
    \/ Sample(AscendingEnumerations(Pids), FrameOutcomes, MemTotalKb,
              MemAvailKb, StatTotals, {24}, ColsValues, {0})
    \/ Compute
    \/ Sort
    \/ Render

FrameSpec == FrameInit /\ [][FrameNext]_vars

(* ------------------ one snapshot with every read outcome ---------------- *)
\* A stat line long enough to be parsed whose tick fields are not numbers.
MalformedOutcomes ==
    [comm : {"proc"}, stat : {MalformedStat}, statm : {25600}, status : {-1}]

SnapshotNext ==
    \/ Sample(AscendingEnumerations(Pids), ReadOutcomes \cup MalformedOutcomes,
              {1024000}, {512000}, {1000}, {24}, {80}, {0})
    \/ Compute

SnapshotSpec == FrameInit /\ [][SnapshotNext]_vars

(* --------------- the loop with its clock and its scheduling ------------- *)
\* One process, read whole with 100 or 150 ticks; a snapshot that takes no
\* time or 300 ms.
SnapshotDelays == {0, 300}

FairOutcomes ==
    [comm : {"proc"}, stat : {100, 150}, statm : {25600}, status : {-1}]

FairSample ==
    Sample({<<1>>}, FairOutcomes, {1024000}, {512000}, {1000}, {24}, {80},
           SnapshotDelays)

FairNext ==
    \/ FairSample
    \/ Compute
    \/ Sort
    \/ Render
    \/ Input
    \/ KillRead
    \/ KillSend
    \/ KillAck
    \/ KillRestore
    \/ Cadence
    \/ Exit

\* main() is one sequential thread.  It waits in the two blocking reads of
\* the kill sub-flow, lines 306 and 317, and it would wait in the getch() of
\* line 295 if the window were not in nodelay mode; after return it is
\* over.  Everywhere else its next statement is executed: sleep_for returns,
\* the reads of /proc return.
Waiting ==
    \/ pc \in {"kill_read", "kill_ack", "exited", "aborted"}
    \/ pc = "input" /\ ~nodelay

Positions ==
    {"sample", "delta", "sort", "render", "input", "kill_read", "kill_send",
     "kill_ack", "kill_restore", "cadence", "done", "exited", "aborted"}

\* main() moves on to its next position.
ProgramStep ==
    /\ ~Waiting
    /\ pc' \in Positions
    /\ pc' # pc

FairSpec == Init /\ [][FairNext]_vars /\ WF_pc(ProgramStep)

(* ============================== claims ================================ *)
Max0(n) == IF n > 0 THEN n ELSE 0

\* C1: in the delta step, the delta used for each process p of the snapshot
\* is max(0, p.ticks - prior), where prior is the entry the map held for
\* p.pid when the step began, or p.ticks itself when it held none: t1 - t0
\* for stored t0 <= t1, 0 for t1 < t0, and 0 for a pid seen for the first time.
C1_DeltaIsClampedDifference ==
    [][pc = "delta" =>
        /\ Len(delta') = Len(procs)
        /\ \A i \in 1..Len(procs) :
              LET p == procs[i]
                  seen == p.pid \in DOMAIN prev_proc_time
                  prior == IF seen THEN prev_proc_time[p.pid] ELSE p.time
              IN  /\ delta'[i] = Max0(p.time - prior)
                  /\ seen /\ prior <= p.time => delta'[i] = p.time - prior
                  /\ seen /\ p.time < prior => delta'[i] = 0
                  /\ ~seen => delta'[i] = 0
    ]_vars

\* The step has handled two processes, one risen from 100 to 150 ticks and
\* one fallen from 150 to 100.
C1_Witness ==
    /\ pc = "sort"
    /\ Len(procs) = 2
    /\ prev[1] = 100 /\ procs[1].time = 150 /\ delta[1] = 50
    /\ prev[2] = 150 /\ procs[2].time = 100 /\ delta[2] = 0

\* C2: no process ever carries a negative cpu_pct, whatever the map held
\* (counters that fell, zero records of failed reads, pids gone and back)
\* and whatever interval was measured.
C2_CpuPctNeverNegative ==
    \A i \in 1..Len(procs) :
        procs[i].cpu_pct[1] >= 0 /\ procs[i].cpu_pct[2] > 0

\* The delta step has handled a failed read (a zero record) of a pid whose
\* stored count was 150, next to a process that used CPU.
C2_Witness ==
    /\ pc = "sort"
    /\ Len(procs) = 2
    /\ procs[1].name = "" /\ procs[1].time = 0 /\ prev[1] = 150
    /\ procs[1].cpu_pct = RZero
    /\ RGt(procs[2].cpu_pct, RZero)

\* C3: after the delta step, cpu_pct = (delta / CLK_TCK) / interval * 100
\* for every process; a zero delta gives exactly 0; with 100 ticks per second,
\* 100 -> 150 ticks over one second gives 50.
C3_CpuPctFormula ==
    pc = "sort" =>
        /\ RGt(interval, RZero)
        /\ \A i \in 1..Len(procs) :
              /\ procs[i].cpu_pct[1] * (CLK_TCK * interval[1])
                    = (delta[i] * 100 * interval[2]) * procs[i].cpu_pct[2]
              /\ delta[i] = 0 => procs[i].cpu_pct = <<0, 1>>
              /\ (CLK_TCK = 100 /\ prev[i] = 100 /\ procs[i].time = 150
                    /\ interval = <<1, 1>>) => procs[i].cpu_pct = <<50, 1>>

C3_Witness ==
    /\ pc = "sort"
    /\ interval = <<1, 1>>
    /\ \E i \in 1..Len(procs) :
          prev[i] = 100 /\ procs[i].time = 150 /\ procs[i].cpu_pct = <<50, 1>>

SnapshotPids == {procs[i].pid : i \in 1..Len(procs)}

\* C4: the map starts empty; the delta step adds an entry for every pid of
\* the snapshot, sets the entry of each such pid to the ticks just reported
\* and keeps every other entry; no other step touches the map.  So its keys
\* are the pids of all snapshots so far and each entry is the count of the
\* latest snapshot that held the pid.
C4_PriorStateGrowsAndTracks ==
    /\ prev_proc_time = <<>>
    /\ [][/\ DOMAIN prev_proc_time \subseteq DOMAIN prev_proc_time'
          /\ pc # "delta" => prev_proc_time' = prev_proc_time
          /\ pc = "delta" =>
               /\ DOMAIN prev_proc_time'
                     = DOMAIN prev_proc_time \cup SnapshotPids
               /\ \A i \in 1..Len(procs) :
                     prev_proc_time'[procs[i].pid] = procs[i].time
               /\ \A q \in DOMAIN prev_proc_time \ SnapshotPids :
                     prev_proc_time'[q] = prev_proc_time[q]
       ]_vars

\* Pid 2 is missing from the snapshot just handled; its entry is still there.
C4_Witness ==
    /\ pc = "sort"
    /\ SnapshotPids = {1}
    /\ DOMAIN prev_proc_time = {1, 2}
    /\ prev_proc_time[1] = procs[1].time
    /\ prev_proc_time[2] = 150

IsOrdered(mode, ps) ==
    \A i, j \in 1..Len(ps) :
        i < j =>
            IF mode = BY_CPU_DESC THEN
                /\ RGe(ps[i].cpu_pct, ps[j].cpu_pct)
                /\ ps[i].cpu_pct = ps[j].cpu_pct => ps[i].pid < ps[j].pid
            ELSE IF mode = BY_MEM_DESC THEN
                /\ RGe(ps[i].mem_pct, ps[j].mem_pct)
                /\ ps[i].mem_pct = ps[j].mem_pct => ps[i].pid < ps[j].pid
            ELSE ps[i].pid < ps[j].pid

IsPermutation(a, b) ==
    /\ Len(a) = Len(b)
    /\ \E f \in [1..Len(a) -> 1..Len(a)] :
          /\ \A i, j \in 1..Len(a) : i # j => f[i] # f[j]
          /\ \A i \in 1..Len(a) : a[i] = b[f[i]]

\* C5: the sort step turns a vector with pairwise distinct pids into a
\* permutation of it that is ordered by the active mode: CPU descending with
\* equal cpu_pct in ascending pid order, MEM descending likewise, or strictly
\* ascending pid.  The frame shows the first rows of that sequence.
C5_SortedPermutation ==
    [][/\ pc = "sort" =>
            /\ IsPermutation(procs', procs)
            /\ IsOrdered(sort_mode, procs')
       /\ pc = "render" =>
            /\ Len(screen'.table) <= Len(procs)
            /\ \A i \in 1..Len(screen'.table) :
                  screen'.table[i].pid = procs[i].pid
    ]_vars

\* Sorted by CPU: the busy pid 3 leads, the idle pids 1 and 2 tie and follow
\* in pid order.
C5_Witness ==
    /\ pc = "render"
    /\ sort_mode = BY_CPU_DESC
    /\ Len(procs) = 3
    /\ procs[1].pid = 3 /\ procs[2].pid = 1 /\ procs[3].pid = 2
    /\ RGt(procs[1].cpu_pct, procs[2].cpu_pct)
    /\ procs[2].cpu_pct = procs[3].cpu_pct

KillPcs == {"kill_read", "kill_send", "kill_ack", "kill_restore"}

\* The cycle of the sort modes
SortCycle(m) ==
    CASE m = BY_CPU_DESC -> BY_MEM_DESC
      [] m = BY_MEM_DESC -> BY_PID_ASC
      [] m = BY_PID_ASC -> BY_CPU_DESC

\* C6: the mode starts as BY_CPU_DESC; a sort key read in MONITOR moves it
\* one step along CPU -> MEM -> PID -> CPU and leaves the controller in
\* MONITOR; nothing else moves it.  Three sort keys are three steps along a
\* cycle of three, whatever is read between them: the mode is back.
C6_SortModeCycles ==
    /\ sort_mode = BY_CPU_DESC
    /\ [][/\ sort_mode \in {BY_CPU_DESC, BY_MEM_DESC, BY_PID_ASC}
          /\ (pc = "input" /\ ch' \in {"s", "S"}) =>
                /\ sort_mode' = SortCycle(sort_mode)
                /\ pc' = "cadence"
                /\ nodelay' /\ ~echo' /\ curs' = 0
          /\ sort_mode' # sort_mode => pc = "input" /\ ch' \in {"s", "S"}
       ]_vars

\* The frame on the screen was sorted by PID and a sort key has just brought
\* the mode back to CPU.
C6_Witness ==
    /\ pc = "cadence"
    /\ ch \in {"s", "S"}
    /\ screen.sort = "PID"
    /\ sort_mode = BY_CPU_DESC

\* What each line the operator can type is worth as a decimal integer
LineValue(line) ==
    CASE line = <<>> -> 0
      [] line = <<"a">> -> 0
      [] line = <<"0">> -> 0
      [] line = <<"-", "7">> -> -7
      [] line = <<"4", "2">> -> 42
      [] line = <<" ", "4", "2">> -> 42
      [] line = <<"4", "2", "x">> -> 42
      [] line = <<"+", "4", "2">> -> 42

\* C7: kill() is called only in the kill sub-flow, only when the line read
\* is worth more than 0, once per sub-flow and on exactly that value; a line
\* worth 0 or less (non-numeric included) leads to no call.
C7_KillOnlyOnPositivePid ==
    [][/\ kill_calls' # kill_calls =>
             /\ pc = "kill_send"
             /\ LineValue(buf) > 0
             /\ kill_calls' = Append(kill_calls, LineValue(buf))
       /\ pc = "kill_read" =>
             /\ okpid' = LineValue(buf')
             /\ LineValue(buf') > 0 => pc' = "kill_send"
             /\ LineValue(buf') <= 0 => pc' = "kill_restore"
       /\ pc = "kill_send" =>
             /\ Len(kill_calls') = Len(kill_calls) + 1
             /\ pc' = "kill_ack"
       /\ pc' = "kill_send" => pc = "kill_read"
       /\ pc' = "kill_read" => pc = "input" /\ ch' \in {"k", "K"}
    ]_vars

\* " 42" was typed and one request went to pid 42.
C7_Witness ==
    /\ pc = "kill_ack"
    /\ buf = <<" ", "4", "2">>
    /\ kill_calls = <<42>>

\* C8: the kill sub-flow is left only through the restore step, which puts
\* the input back to non-blocking, non-echoed, hidden cursor and goes on to
\* the cadence delay and the next iteration, whatever was parsed and whatever
\* kill() returned; every getch() in MONITOR finds that mode.
C8_KillFlowRestoresMode ==
    [][/\ pc' = "input" => nodelay' /\ ~echo' /\ curs' = 0
       /\ (pc \in KillPcs /\ pc' \notin KillPcs) =>
             /\ pc = "kill_restore"
             /\ pc' = "cadence"
             /\ nodelay' /\ ~echo' /\ curs' = 0
       /\ (pc = "cadence" => pc' = "sample")
       /\ (pc \in KillPcs \ {"kill_restore"} => pc' \in KillPcs)
    ]_vars

\* A request that the OS rejected has been acknowledged and the mode is back.
C8_Witness ==
    /\ pc = "cadence"
    /\ ch \in {"k", "K"}
    /\ okpid > 0
    /\ res = -1
    /\ nodelay /\ ~echo /\ curs = 0

\* C9 as claimed: the restore step is reached only from the acknowledging
\* getch(), for every line.
C9_AckBeforeEveryReturn ==
    [][pc' = "kill_restore" => pc = "kill_ack"]_vars

\* C9 as the code has it: after a line worth more than 0 the request is sent,
\* and the restore step is reached only through the acknowledging getch();
\* after a line worth 0 or less the restore step follows at once, with no
\* keypress awaited.
C9_AckOnlyAfterRequest ==
    [][/\ (pc = "kill_read" /\ okpid' > 0) => pc' = "kill_send"
       /\ (pc = "kill_read" /\ okpid' <= 0) => pc' = "kill_restore"
       /\ pc = "kill_send" => pc' = "kill_ack"
       /\ pc = "kill_ack" => pc' = "kill_restore"
       /\ pc' = "kill_ack" => pc = "kill_send"
       /\ pc' = "kill_restore" =>
             \/ pc = "kill_ack" /\ okpid > 0
             \/ pc = "kill_read" /\ okpid' <= 0
    ]_vars

\* Both blocking reads have been waited for: the line, then the keypress.
C9_Witness ==
    /\ pc = "kill_restore"
    /\ okpid > 0
    /\ Len(kill_calls) = 1
    /\ elapsed = 2000

\* C10: the steps of an iteration follow one another as snapshot, delta,
\* sort, render, key read; no key is taken and no command acts in between;
\* the frame on the screen when the key is read is the whole frame of the
\* vector sorted by the mode of that iteration; and only the render step
\* changes the screen, so a command changes the order only of later frames.
C10_OneCycleBeforeInput ==
    [][/\ pc = "sample" => pc' = "delta"
       /\ pc = "delta" => pc' = "sort"
       /\ pc = "sort" => pc' = "render"
       /\ pc = "render" => pc' = "input"
       /\ pc' = "input" => pc = "render"
       /\ pc' = "sample" => pc = "cadence"
       /\ pc' = "delta" => pc = "sample"
       /\ pc \in {"sample", "delta", "sort", "render"} =>
             /\ ch' = ch /\ ch = "none"
             /\ sort_mode' = sort_mode
             /\ kill_calls' = kill_calls
       /\ pc' = "input" =>
             /\ IsOrdered(sort_mode', procs')
             /\ screen'.sort = SortLabel(sort_mode')
             /\ Len(screen'.table) = Len(procs')
             /\ \A i \in 1..Len(procs') :
                   /\ screen'.table[i].pid = procs'[i].pid
                   /\ screen'.table[i].cpu_pct = procs'[i].cpu_pct
       /\ pc # "render" => screen' = screen
    ]_vars

\* A sort key was read under a frame sorted by CPU: the mode is MEM, the
\* frame still shows the CPU order, pid 2 before pid 1.
C10_Witness ==
    /\ pc = "sample"
    /\ sort_mode = BY_MEM_DESC
    /\ screen.sort = "CPU %"
    /\ Len(screen.table) = 2
    /\ screen.table[1].pid = 2

\* C11: the aggregate CPU indicator of every frame is the sum of cpu_pct over
\* all processes of the snapshot, whatever the /proc/stat total did (also
\* when it read as zero or did not advance).
C11_AggregateIsSumAlways ==
    [][pc = "render" => screen'.cpu_pct = sum_proc_cpu(procs)]_vars

\* C11: the aggregate CPU indicator of a frame is the sum of cpu_pct over all
\* processes of the snapshot when the /proc/stat total advanced since the
\* last iteration, and 0 when it did not advance or could not be read.
C11_AggregateIsSumWhenTotalAdvanced ==
    [][pc = "render" =>
         /\ total_time_delta > 0 => screen'.cpu_pct = sum_proc_cpu(procs)
         /\ total_time_delta = 0 => screen'.cpu_pct = RZero
         /\ total_time_delta >= 0
      ]_vars

\* A frame that shows 0 over processes whose percentages sum to more: the
\* /proc/stat total did not advance.
C11_Witness ==
    /\ pc = "input"
    /\ total_time_delta = 0
    /\ prev_total_time = 1000
    /\ screen.cpu_pct = RZero
    /\ RGt(sum_proc_cpu(procs), RZero)

FilledCells(bar) == Cardinality({i \in DOMAIN bar : bar[i]})

Clamp01(f) ==
    IF RGt(RZero, f) THEN RZero ELSE IF RGt(f, <<1, 1>>) THEN <<1, 1>> ELSE f

\* the nearest integer of a rational x >= 0, halves going up
RoundHalfUp(x) == (2 * x[1] + x[2]) \div (2 * x[2])

BarAsClaimed(bar, w, f) ==
    /\ Len(bar) = w
    /\ FilledCells(bar) = RoundHalfUp(RMul(Clamp01(f), <<w, 1>>))
    /\ FilledCells(bar) >= 0
    /\ FilledCells(bar) <= w
    /\ \A i \in 1..w : bar[i] <=> i <= FilledCells(bar)

\* C12: each bar of a frame has width w = max(20, cols / 3) and shows
\* round(clamp(f, 0, 1) * w) filled cells, from the left, never fewer than 0
\* and never more than w: the CPU bar for f = aggregate indicator / 100, the
\* memory bar for f = (mem_total - mem_available) / mem_total, also when f is
\* negative or above 1.  (With mem_total = 0 the memory bar is empty.)
C12_BarFillIsClampedRound ==
    [][pc = "render" =>
         LET w == IF cols \div 3 > 20 THEN cols \div 3 ELSE 20
             fcpu == RDiv(screen'.cpu_pct, <<100, 1>>)
             used == RAdd(mem_total_mb, <<-mem_avail_mb[1], mem_avail_mb[2]>>)
         IN  /\ BarAsClaimed(screen'.cpu_bar, w, fcpu)
             /\ RGt(mem_total_mb, RZero) =>
                   BarAsClaimed(screen'.mem_bar, w, RDiv(used, mem_total_mb))
             /\ mem_total_mb = RZero =>
                   /\ Len(screen'.mem_bar) = w
                   /\ FilledCells(screen'.mem_bar) = 0
      ]_vars

\* A frame with MemAvailable above MemTotal, hence a negative memory
\* fraction and an empty memory bar, and an aggregate above 100, hence a
\* full CPU bar.
C12_Witness ==
    /\ pc = "input"
    /\ RGt(mem_avail_mb, mem_total_mb)
    /\ RGt(mem_total_mb, RZero)
    /\ FilledCells(screen.mem_bar) = 0
    /\ RGt(screen.cpu_pct, <<100, 1>>)
    /\ Len(screen.cpu_bar) = 20
    /\ FilledCells(screen.cpu_bar) = 20

\* C13: whenever the interval measured at the loop head is non-positive or
\* unreasonably small (here: below 10 ms, far under the 800 ms the loop
\* sleeps between two samples), the interval used for the percentages is
\* the fallback 1.0; the interval divided by is strictly positive and never
\* such a small value.
C13_SmallIntervalReplaced ==
    [][pc = "sample" /\ pc' = "delta" =>
         /\ elapsed < 10 => interval' = <<1, 1>>
         /\ RGt(interval', RZero)
         /\ RGe(interval', <<1, 100>>)
      ]_vars

\* C13: whenever the interval measured at the loop head is non-positive,
\* the interval used for the percentages is the fallback 1.0; a positive
\* measured interval is used as measured, however small; the interval
\* divided by is always strictly positive.
C13_NonPositiveIntervalReplaced ==
    [][pc = "sample" /\ pc' = "delta" =>
         /\ elapsed <= 0 => interval' = <<1, 1>>
         /\ elapsed > 0 => interval' = Rat(elapsed, 1000)
         /\ RGt(interval', RZero)
      ]_vars

\* The first iteration found last_time equal to now: no frame was drawn yet
\* and the interval in use is the fallback.
C13_Witness ==
    /\ pc = "delta"
    /\ screen = BlankScreen
    /\ interval = <<1, 1>>
    /\ Len(procs) > 0

\* C14: a snapshot call never aborts the iteration, whatever the reads of
\* the single processes give (vanished, permission denied, malformed
\* record): it hands the delta step one record per enumerated pid, pairwise
\* distinct, a failed read leaving zero or blank fields in that record.
C14_SnapshotNeverAborts ==
    [][pc = "sample" =>
         /\ pc' = "delta"
         /\ \A i, j \in 1..Len(procs') :
               i # j => procs'[i].pid # procs'[j].pid
         /\ \A i \in 1..Len(procs') :
               /\ procs'[i].pid \in Pids
               /\ procs'[i].time >= 0
               /\ procs'[i].rss_pages >= 0
               /\ procs'[i].name \in {"", "proc"}
      ]_vars

\* C15: after the delta step each process has mem_pct = resident size /
\* total memory * 100 when total memory is above 0 (100 MB resident of
\* 1000 MB total give 10), and exactly 0 when total memory is 0.
C15_MemPctGuarded ==
    [][pc = "delta" =>
         /\ Len(procs') = Len(procs)
         /\ \A i \in 1..Len(procs') :
               LET rss_kb == procs[i].rss_pages * (PAGE_SIZE \div 1024)
                   total_kb == Trunc(RMul(mem_total_mb, <<1024, 1>>))
               IN  /\ procs'[i].rss_pages = procs[i].rss_pages
                   /\ total_kb > 0 =>
                         procs'[i].mem_pct = Rat(rss_kb * 100, total_kb)
                   /\ total_kb = 0 => procs'[i].mem_pct = RZero
                   /\ (rss_kb = 102400 /\ total_kb = 1024000) =>
                         procs'[i].mem_pct = <<10, 1>>
      ]_vars

\* A process of 100 MB resident, computed as 10 percent of 1000 MB.
C15_Witness ==
    /\ pc = "sort"
    /\ mem_total_mb = <<1000, 1>>
    /\ \E i \in 1..Len(procs) :
          /\ procs[i].rss_pages = 25600
          /\ procs[i].mem_pct = <<10, 1>>

\* C16: the loop is left when, and only when, the quit key is read; from
\* then on no snapshot is taken, no frame drawn, no termination request
\* sent, neither the tick map nor the sort mode changes, and main() returns
\* exit code 0.
C16_QuitEndsTheLoop ==
    [][/\ (pc = "input" /\ ch' \in {"q", "Q"}) => pc' = "done"
       /\ pc' = "done" => (pc = "input" /\ ch' \in {"q", "Q"})
       /\ pc = "done" => (pc' = "exited" /\ exit_code' = 0)
       /\ pc' = "exited" => pc \in {"done", "exited"}
       /\ pc = "exited" => pc' = "exited"
       /\ exit_code' # exit_code => pc = "done"
       /\ pc' \in {"done", "exited"} =>
             /\ procs' = procs
             /\ screen' = screen
             /\ kill_calls' = kill_calls
             /\ prev_proc_time' = prev_proc_time
             /\ sort_mode' = sort_mode
      ]_vars

\* main() has returned 0 after Q was read under a frame of two processes.
C16_Witness ==
    /\ pc = "exited"
    /\ exit_code = 0
    /\ ch = "Q"
    /\ Len(screen.table) = 2

CommandKeys == {"q", "Q", "s", "S", "k", "K"}

\* C18: input handling changes only what its command names.  The sort mode
\* changes only when the sort key is read; a key that is no command, or no
\* key at all, changes neither the sort mode nor the tick map nor the input
\* mode and leaves the controller in MONITOR; the kill sub-flow changes
\* neither the sort mode nor the tick map; the tick map is changed by the
\* delta step alone; reading a key changes neither snapshot nor frame.
C18_InputChangesOnlyWhatItNames ==
    [][/\ sort_mode' # sort_mode => (pc = "input" /\ ch' \in {"s", "S"})
       /\ (pc = "input" /\ ch' \notin CommandKeys) =>
             /\ sort_mode' = sort_mode
             /\ prev_proc_time' = prev_proc_time
             /\ <<nodelay', echo', curs'>> = <<nodelay, echo, curs>>
             /\ kill_calls' = kill_calls
             /\ pc' = "cadence"
       /\ (pc \in KillPcs \/ (pc = "input" /\ ch' \in {"k", "K"})) =>
             /\ sort_mode' = sort_mode
             /\ prev_proc_time' = prev_proc_time
       /\ prev_proc_time' # prev_proc_time => pc = "delta"
       /\ pc \in {"input"} \cup KillPcs =>
             /\ procs' = procs
             /\ screen' = screen
      ]_vars

\* A key that is no command was read with the mode on MEM and both
\* processes in the tick map.
C18_Witness ==
    /\ pc = "cadence"
    /\ ch = "x"
    /\ sort_mode = BY_MEM_DESC
    /\ DOMAIN prev_proc_time = {1, 2}
    /\ nodelay

\* C17: the loop never stalls in MONITOR.  From every point of an iteration
\* outside the two blocking reads of the kill sub-flow, whether or not a key
\* is waiting, the loop goes on to take a new snapshot, unless the quit key
\* is read or the operator is asked for a pid first.
C17_MonitorNeverStalls ==
    (pc \in {"sample", "sort", "render", "input", "cadence", "kill_send",
             "kill_restore"})
       ~> (pc \in {"delta", "done", "kill_read", "kill_ack"})

\* A second snapshot was taken 1000 ms after the first: no key was waiting
\* (200 ms of sleep, then the 800 ms of every iteration).
C17_Witness ==
    /\ pc = "delta"
    /\ screen # BlankScreen
    /\ interval = <<1, 1>>
    /\ kill_calls = <<>>

\* C19: from the second iteration on, the interval used by an iteration is
\* the time on the monotonic clock between the timestamp stored by the
\* previous iteration and the one taken now, not an assumed constant: all
\* the time the previous iteration spent collecting its snapshot, sleeping
\* and blocked in the kill sub-flow is in it.  The stored timestamp is
\* advanced once per iteration, at the loop head, and nowhere else.
C19_IntervalIsMeasured ==
    [][/\ (pc = "sample" /\ screen # BlankScreen) =>
             /\ elapsed >= 800
             /\ interval' = Rat(elapsed, 1000)
       /\ pc = "sample" => elapsed' \in SnapshotDelays
       /\ pc # "sample" => elapsed' >= elapsed
       /\ pc \in {"kill_read", "kill_ack"} => elapsed' - elapsed \in BlockDelays
       /\ pc = "cadence" => elapsed' = elapsed + 800
       /\ (pc = "input" /\ ch' \notin CommandKeys) => elapsed' = elapsed + 200
       /\ pc \in {"delta", "sort", "render", "kill_send", "kill_restore"} =>
             elapsed' = elapsed
      ]_vars

\* An interval of 3.1 s: 300 ms of snapshot collection, two blocking reads
\* of 1000 ms each in the kill sub-flow, and the 800 ms of every iteration.
C19_Witness ==
    /\ pc = "delta"
    /\ interval = <<31, 10>>
    /\ Len(kill_calls) = 1

\* C20: a pid whose map entry is T > 0 and whose record comes back degraded,
\* with 0 ticks, gets delta 0 and has its entry overwritten with 0; a pid
\* whose entry is 0 and whose record reads T' ticks gets the whole T' as its
\* delta.  The entry of a pid that is missing from the snapshot stays as its
\* last appearance left it, and a pid that comes back is measured against
\* that entry, not treated as seen for the first time.
C20_DegradedReadResetsEntry ==
    [][pc = "delta" =>
         /\ \A i \in 1..Len(procs) :
               LET p == procs[i]
                   known == p.pid \in DOMAIN prev_proc_time
               IN  /\ (known /\ prev_proc_time[p.pid] > 0 /\ p.time = 0) =>
                         /\ delta'[i] = 0
                         /\ prev_proc_time'[p.pid] = 0
                   /\ (known /\ prev_proc_time[p.pid] = 0) =>
                         /\ delta'[i] = p.time
                         /\ prev_proc_time'[p.pid] = p.time
                   /\ known =>
                         /\ prev'[i] = prev_proc_time[p.pid]
                         /\ delta'[i] = Max0(p.time - prev_proc_time[p.pid])
         /\ \A q \in DOMAIN prev_proc_time \ SnapshotPids :
               /\ q \in DOMAIN prev_proc_time'
               /\ prev_proc_time'[q] = prev_proc_time[q]
      ]_vars

\* Pid 1 had 100 ticks and came back degraded: delta 0, entry 0.  Pid 2 had
\* an entry of 0 and reads 150 ticks: delta 150.
C20_Witness ==
    /\ pc = "sort"
    /\ Len(procs) = 2
    /\ procs[1].pid = 1 /\ prev[1] = 100 /\ procs[1].time = 0
    /\ delta[1] = 0 /\ prev_proc_time[1] = 0
    /\ procs[2].pid = 2 /\ prev[2] = 0 /\ procs[2].time = 150
    /\ delta[2] = 150 /\ prev_proc_time[2] = 150

====
